---- MODULE Spec2Model ----
(***************************************************************************)
(* Model of the benchmarking harness of vCDR_eval_webapp: the Turn         *)
(* Orchestrator (client/lib/BenchmarkingService.js), the Simulated         *)
(* Respondent (client/lib/SimulatedUser.js, the configuration-loading      *)
(* class, the only one that has the initialize() method startRun calls),   *)
(* the host component that feeds it (client/components/App.jsx) and the    *)
(* Persistence Gateway (server.js, server/lib/database.js).                *)
(*                                                                         *)
(* JavaScript runs every callback to completion, so one action is one      *)
(* macrotask: the synchronous part of a handler together with the          *)
(* microtasks it leaves behind.  Awaited network calls split a handler     *)
(* into several actions; the position of each pending call is kept in      *)
(* starts (startRun) and gens (generateSimulatedResponse).                  *)
(***************************************************************************)
EXTENDS Integers, Sequences, FiniteSets, TLC

\* ---------------------------------------------------------------- bounds
\* What comes from outside is budgeted: an event delivered on the data
\* channel costs 1, a Start Run click 2 (it sets off two requests and a
\* timer).  End Run needs a running Run, so the starts bound it.
MaxInputs == 5       \* the budget of Spec
SmallInputs == 4     \* the budget of SpecSmall
MaxStarts == 2       \* run ids there is room for: MaxInputs \div 2
MaxLen == 11         \* longest event list a respondent predicate is applied to

\* ------------------------------------------------------ program constants
RecentWindow == 10   \* events.slice(0, 10)

TDone == "response.output_audio_transcript.done"
TStopped == "output_audio_buffer.stopped"
TItemCreate == "conversation.item.create"
TResponseCreate == "response.create"

Question == "Tell me about yourself."
Padded == " Tell me about yourself. "
Closing == "Thank you. That completes the interview."
Fallback == "Could you please repeat the question?"
Reply == "I am a nurse."

RunIds == 1..MaxStarts

\* startRun's default for userPrompt, which is what the host leaves it at
DefaultPrompt == "candidate"

Min(a, b) == IF a < b THEN a ELSE b

\* ----------------------------------------------------------------- state
VARIABLES
  events,        \* App: the events state, most recent first
  tickPending,   \* App: the 500 ms monitoring timeout is armed
  isRunning,     \* BenchmarkingService.isRunning
  currentRun,    \* BenchmarkingService.currentRun: a run id, 0 for null
  currentEvents, \* BenchmarkingService.currentEvents
  runs,          \* the Run objects, by run id
  su,            \* the SimulatedUser instance
  starts,        \* startRun calls waiting on a fetch
  gens,          \* generateSimulatedResponse calls waiting on a fetch
  timers,        \* pending setTimeout callbacks, by kind and scheduling run
  store,         \* benchmark_runs table, by run_id
  budget,        \* what is left of the input budget
  putCount,      \* history: PUT requests issued, by run id
  endCount,      \* history: running -> completed transitions, by run id
  appends,       \* history: TranscriptEntry appends, by run id
  termSeen,      \* history: a tick found the termination phrase, by run id
  sched,         \* history: reply timers scheduled, by event id of the utterance
  genReturn,     \* history: what the last generateResponse call returned
  sendFn,        \* the sendTextMessage startRun is given: "ok", "absent", "throwing"
  uncaught,      \* history: an exception left a timer callback or endRun uncaught
  callbacks,     \* history: onRunComplete invocations, by run id
  arg,           \* the input under study: an event list for a respondent
                 \* predicate, a request for the gateway
  ret,           \* what was returned for arg
  rejected,      \* history: startRun calls that rejected with createNewRun's error
  allocated,     \* history: the run ids POST /api/benchmark-runs has handed out
  calledAt,      \* history: events in the list when startRun was called, by id
                 \* of a Run that has not ended (0 once it has)
  adoptedAt,     \* history: events in the list when the Run was created, by id
                 \* of a Run that has not ended (0 once it has)
  prompts        \* the userPrompt names startRun is called with

vars == <<events, tickPending, isRunning, currentRun, currentEvents, runs, su,
          starts, gens, timers, store, budget,
          putCount, endCount, appends, termSeen, sched, genReturn,
          sendFn, uncaught, callbacks, arg, ret,
          rejected, allocated, calledAt, adoptedAt, prompts>>

\* ------------------------------------------------------- pure functions

\* String.prototype.trim on the transcripts of the model
Trim(s) == IF s = " " THEN "" ELSE IF s = Padded THEN Question ELSE s

\* content.toLowerCase().includes('that completes the interview')
ContainsPhrase(s) == s = Closing

\* events.slice(0, 10)
Recent(evts) == SubSeq(evts, 1, Min(Len(evts), RecentWindow))

isConversationEnded(evts) ==
  \E i \in 1..Len(Recent(evts)) : ContainsPhrase(Recent(evts)[i].transcript)

\* index of the event extractLatestInterviewerMessage returns from, 0 if none
LatestIndex(evts) ==
  LET hits == {i \in 1..Len(Recent(evts)) :
                 /\ Recent(evts)[i].type = TDone
                 /\ Trim(Recent(evts)[i].transcript) # ""}
  IN IF hits = {} THEN 0 ELSE CHOOSE i \in hits : \A j \in hits : i <= j

extractLatestInterviewerMessage(evts) ==
  IF LatestIndex(evts) = 0 THEN "" ELSE Trim(evts[LatestIndex(evts)].transcript)

shouldRespond(active, evts) == active /\ Len(evts) > 0

\* the id crypto.randomUUID() gives a new event: one not in the list yet
FreshId(evts) == Len(evts) + 1

NewRun(prompt) ==
  [status |-> "running", transcript |-> <<>>, eventLog |-> <<>>,
   processedEventIds |-> {}, selectedUserPrompt |-> prompt]

NoRun ==
  [status |-> "none", transcript |-> <<>>, eventLog |-> <<>>,
   processedEventIds |-> {}, selectedUserPrompt |-> ""]

LogEntry(source, action, eventId) ==
  [source |-> source, action |-> action, eventId |-> eventId]

\* logEvent: appends to currentRun.eventLog, nothing when currentRun is null
logEvent(rs, cur, source, action, eventId) ==
  IF cur = 0 THEN rs
  ELSE [rs EXCEPT ![cur].eventLog = Append(@, LogEntry(source, action, eventId))]

\* addToTranscript: src is the event id the message was extracted from
\* (0 for a reply); it is bookkeeping of the model, not a field of the entry
addToTranscript(rs, cur, role, message, src) ==
  IF cur = 0 THEN rs
  ELSE [rs EXCEPT ![cur].transcript =
          Append(@, [role |-> role, message |-> message, src |-> src])]

\* the events of the list that updateEventLog treats as new, in list order
RECURSIVE NewEvents(_, _)
NewEvents(evts, processed) ==
  IF evts = <<>> THEN <<>>
  ELSE IF Head(evts).event_id \in processed
       THEN NewEvents(Tail(evts), processed)
       ELSE <<Head(evts)>> \o NewEvents(Tail(evts), processed)

RECURSIVE LogAll(_, _)
LogAll(log, news) ==
  IF news = <<>> THEN log
  ELSE LogAll(Append(log, LogEntry("realtime_api", Head(news).type, Head(news).event_id)),
              Tail(news))

\* updateEventLog: the filter runs over the whole list before anything is
\* marked, then every new event is marked processed and logged
updateEventLog(run, evts) ==
  LET news == NewEvents(evts, run.processedEventIds)
  IN [run EXCEPT
        !.processedEventIds = @ \cup {news[i].event_id : i \in 1..Len(news)},
        !.eventLog = LogAll(@, news)]

\* App.sendTextMessage: two client events are prepended to the list
sendTextMessage(evts) ==
  LET item == [event_id |-> FreshId(evts), type |-> TItemCreate, transcript |-> ""]
      resp == [event_id |-> FreshId(evts) + 1, type |-> TResponseCreate, transcript |-> ""]
  IN <<resp, item>> \o evts

\* ------------------------------------------------------- initial state
EmptySU ==
  [isActive |-> FALSE, initialized |-> FALSE, systemPrompt |-> "",
   conversationHistory |-> <<>>]

\* benchmark_runs has no row for the run_id
NoRecord == [saved |-> FALSE, num_turns |-> 0, conversation_history_json |-> <<>>,
             event_log_json |-> <<>>, simulated_user_prompt_name |-> ""]

TimerKinds == {"greeting", "reply", "end"}

InitWith(b) ==
  /\ events = <<>>
  /\ tickPending = FALSE
  /\ isRunning = FALSE
  /\ currentRun = 0
  /\ currentEvents = <<>>
  /\ runs = [r \in RunIds |-> NoRun]
  /\ su = EmptySU
  /\ starts = <<>>
  /\ gens = <<>>
  /\ timers = [k \in TimerKinds |-> [r \in RunIds |-> 0]]
  /\ store = [r \in RunIds |-> NoRecord]
  /\ budget = b
  /\ putCount = [r \in RunIds |-> 0]
  /\ endCount = [r \in RunIds |-> 0]
  /\ appends = [r \in RunIds |-> 0]
  /\ termSeen = [r \in RunIds |-> FALSE]
  /\ sched = <<>>
  /\ genReturn = [called |-> FALSE, active |-> FALSE, failed |-> FALSE, result |-> ""]
  /\ uncaught = FALSE
  /\ callbacks = [r \in RunIds |-> 0]
  /\ rejected = 0
  /\ allocated = {}
  /\ calledAt = [r \in RunIds |-> 0]
  /\ adoptedAt = [r \in RunIds |-> 0]

\* nothing has been returned for arg
NoRet == [fn |-> "none", ended1 |-> FALSE, ended3 |-> FALSE, latest |-> ""]

\* the host passes its own sendTextMessage, and no predicate is under study
Wired ==
  /\ sendFn = "ok"
  /\ prompts = {DefaultPrompt}
  /\ arg = <<>>
  /\ ret = NoRet

Init == InitWith(MaxInputs) /\ Wired

\* remove element i of a sequence
Remove(s, i) == SubSeq(s, 1, i - 1) \o SubSeq(s, i + 1, Len(s))

AddTimer(ts, kind, r) == [ts EXCEPT ![kind][r] = @ + 1]

\* event id of the utterance extractLatestInterviewerMessage finds, 0 if none
LatestEventId(evts) ==
  IF LatestIndex(evts) = 0 THEN 0 ELSE evts[LatestIndex(evts)].event_id

\* --------------------------------------------------- monitorConversation
\* The body of monitorConversation past the isRunning check, as the values
\* it leaves: rs the runs, ts the timers, term whether the phrase was found,
\* reply whether a reply timer was scheduled.
Monitor(rs, ts, cur, active, evts) ==
  LET logged == [rs EXCEPT ![cur] = updateEventLog(@, evts)]
      lastLog == logged[cur].eventLog[Len(logged[cur].eventLog)]
  IN IF isConversationEnded(evts)
     THEN [rs |-> logEvent(logged, cur, "system", "Termination cue detected", 0),
           ts |-> AddTimer(ts, "end", cur), term |-> TRUE, reply |-> FALSE]
     ELSE IF /\ shouldRespond(active, evts)
             /\ Len(logged[cur].eventLog) > 0
             /\ lastLog.action = TStopped
          THEN [rs |-> logged, ts |-> AddTimer(ts, "reply", cur),
                term |-> FALSE, reply |-> TRUE]
          ELSE [rs |-> logged, ts |-> ts, term |-> FALSE, reply |-> FALSE]

\* ------------------------------------------------------------------ App
NewEventKinds ==
  { [type |-> TDone, transcript |-> Question],
    [type |-> TDone, transcript |-> Closing],
    [type |-> TStopped, transcript |-> ""] }

ServerTypes == {TDone, TStopped}

\* the event the channel delivered last, as a set: empty before the first
LastDelivered(evts) ==
  LET idx == {i \in 1..Len(evts) : evts[i].type \in ServerTypes}
  IN IF idx = {} THEN {}
     ELSE {evts[CHOOSE i \in idx : \A j \in idx : i <= j]}

\* the data channel's message listener: setEvents(prev => [event, ...prev]);
\* the monitoring effect then re-arms its timeout if the service is active.
\* The channel delivers a new event or delivers its last event again.
Deliver ==
  /\ budget >= 1
  /\ \E e \in { [event_id |-> FreshId(events), type |-> k.type,
                 transcript |-> k.transcript] : k \in NewEventKinds }
             \cup LastDelivered(events) :
        events' = <<e>> \o events
  /\ tickPending' = isRunning
  /\ budget' = budget - 1
  /\ UNCHANGED <<isRunning, currentRun, currentEvents, runs, su, starts,
                 gens, timers, store, putCount, endCount,
                 appends, termSeen, sched, genReturn>>
  /\ UNCHANGED <<sendFn, uncaught, callbacks, arg, ret>>
  /\ UNCHANGED <<rejected, allocated, calledAt, adoptedAt, prompts>>

\* monitorConversation going on whenever the service has a Run
monitorGuard_hasRun == currentRun # 0

\* monitorConversation returns at once unless the service is running
monitorGuard == isRunning

\* the monitoring timeout fires: monitorConversation(events)
Tick ==
  /\ tickPending
  /\ tickPending' = FALSE
  /\ IF monitorGuard
     THEN LET m == Monitor(runs, timers, currentRun, su.isActive, events)
          IN /\ currentEvents' = events
             /\ runs' = m.rs
             /\ timers' = m.ts
             /\ termSeen' = IF m.term THEN [termSeen EXCEPT ![currentRun] = TRUE]
                            ELSE termSeen
             /\ sched' = IF m.reply THEN Append(sched, LatestEventId(events))
                         ELSE sched
     ELSE UNCHANGED <<currentEvents, runs, timers, termSeen, sched>>
  /\ UNCHANGED <<events, isRunning, currentRun, su, starts, gens, store,
                 budget, putCount, endCount, appends,
                 genReturn>>
  /\ UNCHANGED <<sendFn, uncaught, callbacks, arg, ret>>
  /\ UNCHANGED <<rejected, allocated, calledAt, adoptedAt, prompts>>

\* ------------------------------------------------------------- startRun

\* the events array startRun was called with: the list as it was then,
\* the oldest snap events of today's list
Snapshot(snap) == SubSeq(events, Len(events) - snap + 1, Len(events))

\* an initialize() that fetches the configuration on every call
initializeReturns_never(s) == FALSE

\* SimulatedUser.initialize: `if (this.initialized) return`
initializeReturns(s) == s.initialized

\* SimulatedUser.initialize past the initialized check: the configuration
\* fetched, or the built-in prompt when the fetch fails
Initialized(s, ok) ==
  [s EXCEPT !.initialized = TRUE,
            !.systemPrompt = IF ok THEN "loaded" ELSE "builtin"]

\* startRun after `await this.simulatedUser.initialize(userPrompt)`:
\* start() (async: it sets isActive in a microtask, after the synchronous
\* rest of startRun), the run-started LogEntry, the greeting timer and
\* monitorConversation(events) on the array the call was given
StartRest(i, own, s0, rs0, cur, running) ==
  LET rs1 == logEvent(rs0, cur, "system", "Benchmark run started", 0)
      ts1 == AddTimer(timers, "greeting", own)
      evts == Snapshot(starts[i].snap)
      m == Monitor(rs1, ts1, cur, s0.isActive, evts)
  IN /\ IF running
        THEN /\ currentEvents' = evts
             /\ runs' = m.rs
             /\ timers' = m.ts
             /\ termSeen' = IF m.term THEN [termSeen EXCEPT ![cur] = TRUE]
                            ELSE termSeen
             /\ sched' = IF m.reply THEN Append(sched, LatestEventId(evts))
                         ELSE sched
        ELSE /\ runs' = rs1
             /\ timers' = ts1
             /\ UNCHANGED <<currentEvents, termSeen, sched>>
     /\ su' = [s0 EXCEPT !.isActive = TRUE, !.conversationHistory = <<>>]
     /\ starts' = Remove(starts, i)

\* the run id the server hands out next
NextRunId == 1 + Cardinality({r \in RunIds : runs[r].status # "none"})

\* startRun up to `await this.createNewRun()`: the isRunning check, then POST
StartRunCall ==
  /\ ~isRunning
  /\ budget >= 2
  /\ NextRunId + Cardinality({i \in 1..Len(starts) : starts[i].pc = "create"}) <= MaxStarts
  /\ \E p \in prompts :
       starts' = Append(starts, [pc |-> "create", snap |-> Len(events),
                                 run |-> 0, prompt |-> p])
  /\ budget' = budget - 2
  /\ UNCHANGED <<events, tickPending, isRunning, currentRun, currentEvents,
                 runs, su, gens, timers, store,
                 putCount, endCount, appends, termSeen, sched, genReturn>>
  /\ UNCHANGED <<sendFn, uncaught, callbacks, arg, ret>>
  /\ UNCHANGED <<rejected, allocated, calledAt, adoptedAt, prompts>>

\* POST /api/benchmark-runs answered: the Run is created; when the
\* respondent is initialized already, initialize() returns at once and the
\* rest of startRun follows in the same task
StartCreated(i) ==
  /\ starts[i].pc = "create"
  /\ LET id == NextRunId
         rs0 == [runs EXCEPT ![id] = NewRun(starts[i].prompt)]
     IN /\ isRunning' = TRUE
        /\ currentRun' = id
        /\ allocated' = allocated \cup {id}
        /\ calledAt' = [calledAt EXCEPT ![id] = starts[i].snap]
        /\ adoptedAt' = [adoptedAt EXCEPT ![id] = Len(events)]
        /\ IF initializeReturns(su)
           THEN StartRest(i, id, su, rs0, id, TRUE)
           ELSE /\ runs' = rs0
                /\ starts' = [starts EXCEPT ![i].pc = "init", ![i].run = id]
                /\ UNCHANGED <<currentEvents, su, timers, termSeen, sched>>
  /\ UNCHANGED <<events, tickPending, gens, store, budget, putCount, endCount, appends, genReturn>>
  /\ UNCHANGED <<sendFn, uncaught, callbacks, arg, ret>>
  /\ UNCHANGED <<rejected, prompts>>

\* a startRun that raises isRunning before it asks for the run id and leaves
\* it raised when createNewRun throws
StartCreateFailed_flagSet(i) ==
  /\ starts[i].pc = "create"
  /\ starts' = Remove(starts, i)
  /\ isRunning' = TRUE
  /\ rejected' = rejected + 1
  /\ UNCHANGED <<events, tickPending, currentRun, currentEvents,
                 runs, su, gens, timers, store, budget, putCount, endCount,
                 appends, termSeen, sched, genReturn>>
  /\ UNCHANGED <<sendFn, uncaught, callbacks, arg, ret>>
  /\ UNCHANGED <<allocated, calledAt, adoptedAt, prompts>>

\* POST /api/benchmark-runs failed: createNewRun throws, startRun rethrows
StartCreateFailed(i) ==
  /\ starts[i].pc = "create"
  /\ starts' = Remove(starts, i)
  /\ UNCHANGED <<events, tickPending, isRunning, currentRun, currentEvents,
                 runs, su, gens, timers, store, budget, putCount, endCount, appends, termSeen, sched,
                 genReturn>>
  /\ UNCHANGED <<sendFn, uncaught, callbacks, arg, ret>>
  /\ rejected' = rejected + 1
  /\ UNCHANGED <<allocated, calledAt, adoptedAt, prompts>>

\* the prompt fetch of initialize() answered or failed; startRun goes on
StartInitialized(i, ok) ==
  /\ starts[i].pc = "init"
  /\ StartRest(i, starts[i].run, Initialized(su, ok), runs, currentRun, isRunning)
  /\ UNCHANGED <<events, tickPending, isRunning, currentRun, gens, store,
                 budget, putCount, endCount, appends,
                 genReturn>>
  /\ UNCHANGED <<sendFn, uncaught, callbacks, arg, ret>>
  /\ UNCHANGED <<rejected, allocated, calledAt, adoptedAt, prompts>>

\* --------------------------------------------------------------- endRun
\* JSON.stringify of a conversation_history, as the sequence of its values
RECURSIVE StringifyTurns(_)
StringifyTurns(h) ==
  IF h = <<>> THEN <<>>
  ELSE <<h[1].speaker, h[1].content>> \o StringifyTurns(Tail(h))

\* JSON.parse that loses the last turn
ParseTurns_dropLast(t) ==
  [i \in 1..((Len(t) \div 2) - 1) |->
     [speaker |-> t[2 * i - 1], content |-> t[2 * i]]]

\* JSON.parse of a conversation_history_json
ParseTurns(t) ==
  [i \in 1..(Len(t) \div 2) |->
     [speaker |-> t[2 * i - 1], content |-> t[2 * i]]]

\* JSON.stringify of an event_log
RECURSIVE StringifyLog(_)
StringifyLog(l) ==
  IF l = <<>> THEN <<>>
  ELSE <<l[1].source, l[1].action, l[1].data>> \o StringifyLog(Tail(l))

\* JSON.parse of an event_log_json
ParseLog(t) ==
  [i \in 1..(Len(t) \div 3) |->
     [source |-> t[3 * i - 2], action |-> t[3 * i - 1], data |-> t[3 * i]]]

\* a saveBenchmarkRun that replaces the row of the run_id (INSERT OR REPLACE)
saveBenchmarkRun_replace(st, run_id, runData) ==
  [st EXCEPT ![run_id] =
     [saved |-> TRUE,
      num_turns |-> Len(runData.conversation_history),
      conversation_history_json |-> StringifyTurns(runData.conversation_history),
      event_log_json |-> StringifyLog(runData.event_log),
      simulated_user_prompt_name |-> runData.simulated_user_prompt_name]]

\* saveBenchmarkRun: INSERT into benchmark_runs, run_id is the primary key
saveBenchmarkRun(st, run_id, runData) ==
  IF st[run_id].saved THEN st
  ELSE [st EXCEPT ![run_id] =
          [saved |-> TRUE,
           num_turns |-> Len(runData.conversation_history),
           conversation_history_json |-> StringifyTurns(runData.conversation_history),
           event_log_json |-> StringifyLog(runData.event_log),
           simulated_user_prompt_name |-> runData.simulated_user_prompt_name]]

\* getBenchmarkRun: the row with its JSON columns parsed
getBenchmarkRun(st, run_id) ==
  [num_turns |-> st[run_id].num_turns,
   conversation_history |-> ParseTurns(st[run_id].conversation_history_json),
   event_log |-> ParseLog(st[run_id].event_log_json),
   simulated_user_prompt_name |-> st[run_id].simulated_user_prompt_name]

\* saveRunToServer: the payload of the PUT
Payload(run) ==
  [conversation_history |->
     [i \in 1..Len(run.transcript) |->
        [speaker |-> IF run.transcript[i].role = "interviewer"
                     THEN "interviewer" ELSE "simulated_user",
         content |-> run.transcript[i].message]],
   event_log |->
     [i \in 1..Len(run.eventLog) |->
        [source |-> run.eventLog[i].source,
         action |-> run.eventLog[i].action,
         data |-> run.eventLog[i].eventId]],
   simulated_user_prompt_name |-> run.selectedUserPrompt]

\* endRun without the try/catch around saveRunToServer: a failed PUT leaves
\* endRun as a rejection and onRunComplete is not reached
EndRunBody_noCatch(putOk) ==
  LET cur == currentRun
      rs1 == logEvent([runs EXCEPT ![cur].status = "completed"], cur,
                      "system", "Benchmark run ended", 0)
  IN /\ isRunning' = FALSE
     /\ su' = [su EXCEPT !.isActive = FALSE]
     /\ runs' = rs1
     /\ store' = IF putOk THEN saveBenchmarkRun(store, cur, Payload(rs1[cur]))
                 ELSE store
     /\ putCount' = [putCount EXCEPT ![cur] = @ + 1]
     /\ endCount' = [endCount EXCEPT ![cur] = @ + 1]
     /\ calledAt' = [calledAt EXCEPT ![cur] = 0]
     /\ adoptedAt' = [adoptedAt EXCEPT ![cur] = 0]
     /\ callbacks' = IF putOk THEN [callbacks EXCEPT ![cur] = @ + 1]
                     ELSE callbacks
     /\ uncaught' = (uncaught \/ ~putOk)

\* endRun past its check: the flags, the status, the run-ended LogEntry and
\* the PUT of saveRunToServer, which the server stores (putOk) or which
\* fails.  Past the await endRun writes nothing, it only calls
\* onRunComplete, so the request and its answer are one step.
EndRunBody(putOk) ==
  LET cur == currentRun
      rs1 == logEvent([runs EXCEPT ![cur].status = "completed"], cur,
                      "system", "Benchmark run ended", 0)
  IN /\ isRunning' = FALSE
     /\ su' = [su EXCEPT !.isActive = FALSE]
     /\ runs' = rs1
     /\ store' = IF putOk THEN saveBenchmarkRun(store, cur, Payload(rs1[cur]))
                 ELSE store
     /\ putCount' = [putCount EXCEPT ![cur] = @ + 1]
     /\ endCount' = [endCount EXCEPT ![cur] = @ + 1]
     /\ calledAt' = [calledAt EXCEPT ![cur] = 0]
     /\ adoptedAt' = [adoptedAt EXCEPT ![cur] = 0]
     /\ callbacks' = [callbacks EXCEPT ![cur] = @ + 1]
     /\ UNCHANGED uncaught

\* endRun without the isRunning half of its check
endRunGuard_noFlag == currentRun # 0

endRunGuard == isRunning /\ currentRun # 0

\* End Run, Reset or stopSession
EndRunCall(putOk) ==
  /\ endRunGuard
  /\ EndRunBody(putOk)
  /\ UNCHANGED <<budget, events, tickPending, currentRun, currentEvents, starts, gens,
                 timers, appends, termSeen, sched, genReturn>>
  /\ UNCHANGED <<sendFn, arg, ret>>
  /\ UNCHANGED <<rejected, allocated, prompts>>

\* ------------------------------------------- generateSimulatedResponse
AIOutcomes == {"ok", "empty", "key_unavailable", "completion_failed"}
AIFailures == {"key_unavailable", "completion_failed"}

Returned(active, failed, result) ==
  [called |-> TRUE, active |-> active, failed |-> failed, result |-> result]

\* generateResponse after `await this.initialize()`: null when inactive,
\* else the utterance goes to the history and generateAIResponse is awaited
GenAfterInit(s0, g, rest) ==
  IF ~s0.isActive
  THEN /\ su' = s0
       /\ gens' = rest
       /\ genReturn' = Returned(FALSE, FALSE, "null")
  ELSE /\ su' = IF g.msg # ""
                THEN [s0 EXCEPT !.conversationHistory =
                        Append(@, [role |-> "interviewer", message |-> g.msg])]
                ELSE s0
       /\ gens' = Append(rest, [g EXCEPT !.pc = "ai"])
       /\ UNCHANGED genReturn

\* generateSimulatedResponse up to its first fetch: the utterance is
\* extracted from currentEvents and appended as the interviewer's entry.
\* The initialize() of generateResponse returns at once: a reply timer is
\* only set for a started respondent, and initialized is never reset.
GenStart ==
  LET msg == extractLatestInterviewerMessage(currentEvents)
      g == [pc |-> "init", msg |-> msg, run |-> currentRun]
  IN /\ runs' = addToTranscript(runs, currentRun, "interviewer", msg,
                                LatestEventId(currentEvents))
     /\ appends' = IF currentRun = 0 THEN appends
                   ELSE [appends EXCEPT ![currentRun] = @ + 1]
     /\ GenAfterInit(su, g, gens)

\* generateResponse with a catch block that rethrows
generateResponseResult_rethrow(outcome) ==
  CASE outcome = "ok" -> Reply
    [] outcome = "empty" -> ""
    [] OTHER -> "rejected"

\* what generateResponse returns once generateAIResponse has settled: the
\* trimmed completion, or, from its catch block, the fallback when the key
\* fetch or the completion call failed ("rejected" would be the promise
\* rejecting)
generateResponseResult(outcome) ==
  CASE outcome = "ok" -> Reply
    [] outcome = "empty" -> ""
    [] OTHER -> Fallback

\* generateAIResponse settles; generateResponse returns and
\* generateSimulatedResponse records and sends the reply, or logs the
\* failure in its catch block
GenAnswered(i, outcome) ==
  /\ i \in 1..Len(gens)
  /\ gens[i].pc = "ai"
  /\ LET response == generateResponseResult(outcome)
         logged == logEvent(runs, currentRun, "simulated_user", "Generated response", 0)
     IN /\ su' = IF outcome = "ok"
                 THEN [su EXCEPT !.conversationHistory =
                         Append(@, [role |-> "candidate", message |-> response])]
                 ELSE su
        /\ genReturn' = Returned(TRUE, outcome \in AIFailures, response)
        /\ CASE response = "rejected" ->
                  /\ runs' = logEvent(runs, currentRun, "simulated_user",
                                      "Response generation failed", 0)
                  /\ UNCHANGED <<appends, events, tickPending>>
             [] response = "" ->
                  UNCHANGED <<runs, appends, events, tickPending>>
             [] OTHER ->
                  LET said == addToTranscript(logged, currentRun,
                                              "simulated_user", response, 0)
                  IN /\ appends' = IF currentRun = 0 THEN appends
                                   ELSE [appends EXCEPT ![currentRun] = @ + 1]
                     /\ IF sendFn = "ok"
                        THEN /\ runs' = said
                             /\ events' = sendTextMessage(events)
                             /\ tickPending' = isRunning
                        ELSE /\ runs' = logEvent(said, currentRun, "simulated_user",
                                                 "Response generation failed", 0)
                             /\ UNCHANGED <<events, tickPending>>
  /\ gens' = Remove(gens, i)
  /\ UNCHANGED <<isRunning, currentRun, currentEvents, starts, timers, store,
                 budget, putCount, endCount, termSeen, sched>>
  /\ UNCHANGED <<sendFn, uncaught, callbacks, arg, ret>>
  /\ UNCHANGED <<rejected, allocated, calledAt, adoptedAt, prompts>>

\* --------------------------------------------------------------- timers
\* the greeting timer of startRun
GreetingTimer(r) ==
  /\ timers["greeting"][r] > 0
  /\ timers' = [timers EXCEPT !["greeting"][r] = @ - 1]
  /\ IF isRunning /\ sendFn = "ok"
     THEN /\ events' = sendTextMessage(events)
          /\ tickPending' = isRunning
          /\ UNCHANGED uncaught
     ELSE /\ uncaught' = (uncaught \/ isRunning)
          /\ UNCHANGED <<events, tickPending>>
  /\ UNCHANGED <<isRunning, currentRun, currentEvents, runs, su, starts,
                 gens, store, budget, putCount, endCount,
                 appends, termSeen, sched, genReturn>>
  /\ UNCHANGED <<sendFn, callbacks, arg, ret>>
  /\ UNCHANGED <<rejected, allocated, calledAt, adoptedAt, prompts>>

\* the reply timer of monitorConversation
ReplyTimer(r) ==
  /\ timers["reply"][r] > 0
  /\ timers' = [timers EXCEPT !["reply"][r] = @ - 1]
  /\ IF isRunning
     THEN GenStart
     ELSE UNCHANGED <<runs, appends, su, gens, genReturn>>
  /\ UNCHANGED <<events, tickPending, isRunning, currentRun, currentEvents,
                 starts, store, budget, putCount,
                 endCount, termSeen, sched>>
  /\ UNCHANGED <<sendFn, uncaught, callbacks, arg, ret>>
  /\ UNCHANGED <<rejected, allocated, calledAt, adoptedAt, prompts>>

\* the natural-termination timer of monitorConversation: endRun()
EndTimer(r, putOk) ==
  /\ timers["end"][r] > 0
  /\ timers' = [timers EXCEPT !["end"][r] = @ - 1]
  /\ IF endRunGuard
     THEN EndRunBody(putOk)
     ELSE UNCHANGED <<isRunning, su, runs, store, putCount, endCount, callbacks,
                      uncaught, calledAt, adoptedAt>>
  /\ UNCHANGED <<events, tickPending, currentRun, currentEvents, starts, gens,
                 budget, appends, termSeen, sched, genReturn>>
  /\ UNCHANGED <<sendFn, arg, ret>>
  /\ UNCHANGED <<rejected, allocated, prompts>>

\* -------------------------------------------------------- specification
Next ==
  \/ Deliver
  \/ Tick
  \/ StartRunCall
  \/ \E i \in 1..Len(starts) : StartCreated(i)
  \/ \E i \in 1..Len(starts) : StartCreateFailed(i)
  \/ \E i \in 1..Len(starts), ok \in BOOLEAN : StartInitialized(i, ok)
  \/ \E ok \in BOOLEAN : EndRunCall(ok)
  \/ \E i \in 1..Len(gens), o \in AIOutcomes : GenAnswered(i, o)
  \/ \E r \in RunIds : GreetingTimer(r)
  \/ \E r \in RunIds : ReplyTimer(r)
  \/ \E r \in RunIds, ok \in BOOLEAN : EndTimer(r, ok)

Spec == Init /\ [][Next]_vars

InitSmall == InitWith(SmallInputs) /\ Wired
SpecSmall == InitSmall /\ [][Next]_vars

\* every timeout that was set fires: the monitoring timeout of the host and
\* the greeting, reply and completion timeouts of the service
TimersFire ==
  /\ WF_vars(Tick)
  /\ WF_vars(\E r \in RunIds : GreetingTimer(r))
  /\ WF_vars(\E r \in RunIds : ReplyTimer(r))
  /\ WF_vars(\E r \in RunIds, ok \in BOOLEAN : EndTimer(r, ok))

SpecLive == Init /\ [][Next]_vars /\ TimersFire

\* the prompt of the configuration GET /api/prompts/:promptName serves, one
\* per prompt file: "loaded" is the prompt of 'candidate', the file that
\* initialize() asks for, and any other file's prompt goes by the file's name
getPromptConfig(promptName) ==
  IF promptName = "candidate" THEN "loaded" ELSE promptName

\* startRun is called with userPrompt left at its default or set to the
\* name of another prompt file
InitPrompts ==
  /\ InitWith(SmallInputs)
  /\ prompts = {DefaultPrompt, "patient"}
  /\ sendFn = "ok"
  /\ arg = <<>>
  /\ ret = NoRet

SpecPrompts == InitPrompts /\ [][Next]_vars

\* startRun is given no sendTextMessage, or one that throws (the data
\* channel is closed)
InitSend ==
  /\ InitWith(SmallInputs)
  /\ prompts = {DefaultPrompt}
  /\ sendFn \in {"absent", "throwing"}
  /\ arg = <<>>
  /\ ret = NoRet

SpecSend == InitSend /\ [][Next]_vars

\* ------------------------------------------- the respondent's predicates
\* The predicates of SimulatedUser are applied to event lists of up to
\* MaxLen events: n copies of a filler event with the events a and b put
\* at the places p and q.
EventsOf(n, p, a, q, b, filler) ==
  [i \in 1..n |-> IF i = p THEN a ELSE IF i = q THEN b ELSE filler]

\* everything but arg and ret
machine == <<events, tickPending, isRunning, currentRun, currentEvents, runs,
             su, starts, gens, timers, store, budget, putCount, endCount,
             appends, termSeen, sched, genReturn, sendFn, uncaught, callbacks,
             rejected, allocated, calledAt, adoptedAt, prompts>>

\* --- extractLatestInterviewerMessage
ExtractKinds ==
  { [type |-> TDone, transcript |-> Question],
    [type |-> TDone, transcript |-> Closing],
    [type |-> TDone, transcript |-> " "],
    [type |-> TDone, transcript |-> Padded],
    [type |-> TStopped, transcript |-> Closing] }

ExtractFiller == [type |-> TStopped, transcript |-> ""]

ExtractInputs ==
  { EventsOf(n, p, a, q, b, ExtractFiller) :
      n \in 0..MaxLen, p \in 1..MaxLen, q \in 1..MaxLen,
      a \in ExtractKinds, b \in ExtractKinds }

InitExtract ==
  /\ InitWith(MaxInputs)
  /\ prompts = {DefaultPrompt}
  /\ sendFn = "ok"
  /\ arg \in ExtractInputs
  /\ ret = NoRet

ApplyExtract ==
  /\ ret.fn = "none"
  /\ ret' = [NoRet EXCEPT !.fn = "extractLatestInterviewerMessage",
                          !.latest = extractLatestInterviewerMessage(arg)]
  /\ UNCHANGED <<machine, arg>>

NextExtract == ApplyExtract

SpecExtract == InitExtract /\ [][NextExtract]_vars

\* --- isConversationEnded, on contents that are sequences of characters
UpperChars == <<"A", "B", "C", "D", "E", "F", "G", "H", "I", "J", "K", "L", "M",
                "N", "O", "P", "Q", "R", "S", "T", "U", "V", "W", "X", "Y", "Z">>
LowerChars == <<"a", "b", "c", "d", "e", "f", "g", "h", "i", "j", "k", "l", "m",
                "n", "o", "p", "q", "r", "s", "t", "u", "v", "w", "x", "y", "z">>

\* String.prototype.toLowerCase
ToLowerCase(s) ==
  [i \in 1..Len(s) |->
     IF \E k \in 1..Len(UpperChars) : UpperChars[k] = s[i]
     THEN LowerChars[CHOOSE k \in 1..Len(UpperChars) : UpperChars[k] = s[i]]
     ELSE s[i]]

\* String.prototype.includes
Includes(s, sub) ==
  \E k \in 0..(Len(s) - Len(sub)) : SubSeq(s, k + 1, k + Len(sub)) = sub

\* 'this is the end of this part'
Phrase1 ==
  <<
    "t", "h", "i", "s", " ", "i", "s", " ", "t", "h", "e", " ",
    "e", "n", "d", " ", "o", "f", " ", "t", "h", "i", "s", " ",
    "p", "a", "r", "t" >>

\* 'that completes the interview'
Phrase3 ==
  <<
    "t", "h", "a", "t", " ", "c", "o", "m", "p", "l", "e", "t",
    "e", "s", " ", "t", "h", "e", " ", "i", "n", "t", "e", "r",
    "v", "i", "e", "w" >>

\* "This is the END of this part."
Ending1 ==
  <<
    "T", "h", "i", "s", " ", "i", "s", " ", "t", "h", "e", " ",
    "E", "N", "D", " ", "o", "f", " ", "t", "h", "i", "s", " ",
    "p", "a", "r", "t", "." >>

\* "Thank you. That Completes the Interview."
Ending3 ==
  <<
    "T", "h", "a", "n", "k", " ", "y", "o", "u", ".", " ", "T",
    "h", "a", "t", " ", "C", "o", "m", "p", "l", "e", "t", "e",
    "s", " ", "t", "h", "e", " ", "I", "n", "t", "e", "r", "v",
    "i", "e", "w", "." >>

\* "That completes"
Partial3 ==
  <<
    "T", "h", "a", "t", " ", "c", "o", "m", "p", "l", "e", "t",
    "e", "s" >>

\* "Hello."
Hello ==
  <<
    "H", "e", "l", "l", "o", "." >>

\* the content the first two classes of SimulatedUser.js take from an
\* event: its transcript, else its text, else the text parts of
\* response.output (output is those parts joined); an absent field is empty
Content1(e) ==
  IF e.transcript # <<>> THEN e.transcript
  ELSE IF e.text # <<>> THEN e.text
  ELSE e.output

\* the content the configuration-loading class takes: the transcript
Content3(e) == e.transcript

\* isConversationEnded of the first two classes
isConversationEnded1(evts) ==
  \E i \in 1..Len(Recent(evts)) :
    Includes(ToLowerCase(Content1(Recent(evts)[i])), Phrase1)

\* isConversationEnded of the configuration-loading class
isConversationEnded3(evts) ==
  \E i \in 1..Len(Recent(evts)) :
    Includes(ToLowerCase(Content3(Recent(evts)[i])), Phrase3)

NoContent == <<>>

EndedKinds ==
  { [transcript |-> Ending3, text |-> NoContent, output |-> NoContent],
    [transcript |-> NoContent, text |-> Ending3, output |-> NoContent],
    [transcript |-> Ending1, text |-> NoContent, output |-> NoContent],
    [transcript |-> NoContent, text |-> Ending1, output |-> NoContent],
    [transcript |-> Hello, text |-> Ending1, output |-> NoContent],
    [transcript |-> NoContent, text |-> NoContent, output |-> Ending1],
    [transcript |-> Partial3, text |-> NoContent, output |-> NoContent] }

EndedFiller == [transcript |-> NoContent, text |-> NoContent, output |-> NoContent]

EndedInputs ==
  { EventsOf(n, p, a, q, b, EndedFiller) :
      n \in 0..MaxLen, p \in 1..MaxLen, q \in 1..MaxLen,
      a \in EndedKinds, b \in EndedKinds }

InitEnded ==
  /\ InitWith(MaxInputs)
  /\ prompts = {DefaultPrompt}
  /\ sendFn = "ok"
  /\ arg \in EndedInputs
  /\ ret = NoRet

ApplyEnded ==
  /\ ret.fn = "none"
  /\ ret' = [NoRet EXCEPT !.fn = "isConversationEnded",
                          !.ended1 = isConversationEnded1(arg),
                          !.ended3 = isConversationEnded3(arg)]
  /\ UNCHANGED <<machine, arg>>

NextEnded == ApplyEnded

SpecEnded == InitEnded /\ [][NextEnded]_vars

\* ------------------------------------------------ the gateway on its own
\* The routes of server.js under requests of any client: arg is the request,
\* ret the response.

\* the bodies a PUT is made with; present lists the fields the body has
StorePayloads ==
  { [present |-> {"conversation_history", "event_log"},
     conversation_history |-> <<>>, event_log |-> <<>>,
     simulated_user_prompt_name |-> ""],
    [present |-> {"conversation_history", "event_log", "simulated_user_prompt_name"},
     conversation_history |-> <<[speaker |-> "interviewer", content |-> Question]>>,
     event_log |-> <<[source |-> "system", action |-> "Benchmark run started", data |-> 0]>>,
     simulated_user_prompt_name |-> DefaultPrompt],
    [present |-> {"conversation_history", "event_log", "simulated_user_prompt_name"},
     conversation_history |-> <<[speaker |-> "interviewer", content |-> Question],
                                [speaker |-> "simulated_user", content |-> Reply]>>,
     event_log |-> <<[source |-> "system", action |-> "Benchmark run started", data |-> 0],
                     [source |-> "system", action |-> "Benchmark run ended", data |-> 0]>>,
     simulated_user_prompt_name |-> DefaultPrompt],
    [present |-> {"conversation_history"},
     conversation_history |-> <<[speaker |-> "interviewer", content |-> Closing]>>,
     event_log |-> <<>>,
     simulated_user_prompt_name |-> ""] }

\* app.put("/api/benchmark-runs/:run_id"): 400 without the required
\* fields, else the prompt name defaulted and saveBenchmarkRun, whose
\* rejection (the INSERT fails on the primary key) is answered with 500
putRoute(st, run_id, runData) ==
  IF ~({"conversation_history", "event_log"} \subseteq runData.present)
  THEN [store |-> st, status |-> 400]
  ELSE LET completeRunData ==
             [runData EXCEPT !.simulated_user_prompt_name =
                               IF @ = "" THEN "candidate" ELSE @]
       IN [store |-> saveBenchmarkRun(st, run_id, completeRunData),
           status |-> IF st[run_id].saved THEN 500 ELSE 200]

\* app.get("/api/benchmark-runs/:run_id"): the run, or 404 when
\* getBenchmarkRun rejects with 'not found'
getRoute(st, run_id) ==
  IF st[run_id].saved
  THEN [fn |-> "GET", status |-> 200, run |-> getBenchmarkRun(st, run_id)]
  ELSE [fn |-> "GET", status |-> 404, run |-> "error"]

InitStore ==
  /\ InitWith(MaxInputs)
  /\ prompts = {DefaultPrompt}
  /\ sendFn = "ok"
  /\ arg = <<>>
  /\ ret = NoRet

\* everything but store, allocated, arg and ret
client == <<events, tickPending, isRunning, currentRun, currentEvents, runs,
            su, starts, gens, timers, budget, putCount, endCount,
            appends, termSeen, sched, genReturn, sendFn, uncaught, callbacks,
            rejected, calledAt, adoptedAt, prompts>>

\* POST /api/benchmark-runs: a run id that was never handed out before
PostRun ==
  /\ Cardinality(allocated) < MaxStarts
  /\ LET run_id == 1 + Cardinality(allocated)
     IN /\ allocated' = allocated \cup {run_id}
        /\ arg' = [fn |-> "POST"]
        /\ ret' = [fn |-> "POST", status |-> 200, run_id |-> run_id]
  /\ UNCHANGED <<client, store>>

PutRun(run_id, runData) ==
  /\ arg' = [fn |-> "PUT", run_id |-> run_id, body |-> runData]
  /\ store' = putRoute(store, run_id, runData).store
  /\ ret' = [fn |-> "PUT", status |-> putRoute(store, run_id, runData).status]
  /\ UNCHANGED <<client, allocated>>

GetRun(run_id) ==
  /\ arg' = [fn |-> "GET", run_id |-> run_id]
  /\ ret' = getRoute(store, run_id)
  /\ UNCHANGED <<client, allocated, store>>

NextStore ==
  \/ PostRun
  \/ \E r \in RunIds, d \in StorePayloads : PutRun(r, d)
  \/ \E r \in RunIds : GetRun(r)

SpecStore == InitStore /\ [][NextStore]_vars

\* a reply timer or a reply in the making exists only for a respondent
\* that has loaded its prompt
RepliesInitialized ==
  ((\E r \in RunIds : timers["reply"][r] > 0) \/ gens # <<>>) => su.initialized

\* ================================================================ claims

\* C1: every Run that ends goes from running to completed exactly once and
\* exactly one PUT is issued for its run id, however manual endRun calls and
\* natural-termination timers interleave; a Run that has not ended has none.
C1_EndsExactlyOnce ==
  \A r \in RunIds :
    /\ runs[r].status = "completed" => endCount[r] = 1 /\ putCount[r] = 1
    /\ runs[r].status # "completed" => endCount[r] = 0 /\ putCount[r] = 0

\* a Run on which the phrase was found is completed, its natural-termination
\* timers have all fired and a manual endRun is no longer possible
C1_Witness ==
  \E r \in RunIds :
    /\ termSeen[r]
    /\ runs[r].status = "completed"
    /\ timers["end"][r] = 0
    /\ putCount[r] = 1

\* C2: within a Run no event identifier has more than one 'realtime_api'
\* LogEntry, whatever lists monitorConversation is given.
C2_OneLogEntryPerEventId ==
  \A r \in RunIds : \A i, j \in 1..Len(runs[r].eventLog) :
    ( /\ runs[r].eventLog[i].source = "realtime_api"
      /\ runs[r].eventLog[j].source = "realtime_api"
      /\ runs[r].eventLog[i].eventId = runs[r].eventLog[j].eventId ) => i = j

EndedEntry == LogEntry("system", "Benchmark run ended", 0)

\* C3: once a tick has found the termination phrase on a Run, nothing more is
\* appended to the Run's transcript, and nothing to its event log but the
\* run-ended entry of endRun.
C3_NoAppendAfterTermination ==
  [][ \A r \in RunIds : termSeen[r] =>
        /\ runs'[r].transcript = runs[r].transcript
        /\ \/ runs'[r].eventLog = runs[r].eventLog
           \/ runs'[r].eventLog = Append(runs[r].eventLog, EndedEntry) ]_vars

\* C4: if a tick on a running Run finds the termination phrase then, the
\* one-shot timers firing eventually, the Run eventually has status completed
\* and the service is not running it.
C4_TerminationCompletes ==
  \A r \in RunIds :
    termSeen[r] ~>
      (runs[r].status = "completed" /\ ~(isRunning /\ currentRun = r))

\* C5: the transcript and the event log of a completed Run never change.
C5_CompletedRunImmutable ==
  [][ \A r \in RunIds : runs[r].status = "completed" =>
        /\ runs'[r].transcript = runs[r].transcript
        /\ runs'[r].eventLog = runs[r].eventLog ]_vars

\* C6: for every persisted Run, num_turns is the length of the
\* conversation_history of the PUT, which is the number of TranscriptEntry
\* appends made to the Run.
C6_NumTurnsCountsAppends ==
  \A r \in RunIds : store[r].saved =>
    /\ store[r].num_turns = Len(getBenchmarkRun(store, r).conversation_history)
    /\ Len(getBenchmarkRun(store, r).conversation_history) = appends[r]

\* C7: within a Run no agent utterance (one transcript-done event) is the
\* source of more than one interviewer TranscriptEntry.
C7_UtteranceRecordedOnce ==
  \A r \in RunIds : \A i, j \in 1..Len(runs[r].transcript) :
    ( /\ runs[r].transcript[i].role = "interviewer"
      /\ runs[r].transcript[j].role = "interviewer"
      /\ runs[r].transcript[i].src # 0
      /\ runs[r].transcript[i].src = runs[r].transcript[j].src ) => i = j

\* a tick is due on a running Run whose respondent is started and whose
\* start-up is over: the phrase is absent, the newest event says the audio
\* stopped and is not ingested yet, an utterance precedes it in the list and
\* no turn has been scheduled for that utterance
StoppedDue ==
  /\ tickPending
  /\ isRunning
  /\ su.isActive
  /\ starts = <<>>
  /\ ~isConversationEnded(events)
  /\ Len(events) >= 2
  /\ events[1].type = TStopped
  /\ events[1].event_id \notin runs[currentRun].processedEventIds
  /\ LatestIndex(events) > 1
  /\ \A i \in 1..Len(sched) : sched[i] # LatestEventId(events)

\* C8: on a running Run without the phrase, the tick that ingests the
\* audio-stopped event following an utterance schedules exactly one
\* respondent turn, for that utterance, also when the stopped event is
\* ingested together with other new events.
C8_OneTurnPerUtterance ==
  [][ (StoppedDue /\ ~tickPending') =>
        /\ timers'["reply"][currentRun] = timers["reply"][currentRun] + 1
        /\ sched' = Append(sched, LatestEventId(events)) ]_vars

\* C9: a timer that fires after the Run that scheduled it has completed does
\* nothing: no message, no append, no run ended, no reply begun; also when a
\* new Run has been started in the meantime.
C9_StaleTimerNoOp ==
  [][ \A k \in TimerKinds, r \in RunIds :
        (timers'[k][r] < timers[k][r] /\ runs[r].status = "completed") =>
          UNCHANGED <<events, isRunning, runs, su, gens, store>> ]_vars

\* C10: generateResponse never rejects, and with an active respondent a
\* failed generation call (key fetch included) makes it return the fallback.
C10_NeverRejects ==
  genReturn.called =>
    /\ genReturn.result # "rejected"
    /\ (genReturn.active /\ genReturn.failed) => genReturn.result = Fallback

\* a generation call of an active respondent has failed and the reply that
\* went into the transcript is the fallback
C10_Witness ==
  /\ genReturn.called /\ genReturn.active /\ genReturn.failed
  /\ genReturn.result = Fallback
  /\ \E r \in RunIds : \E i \in 1..Len(runs[r].transcript) :
       /\ runs[r].transcript[i].role = "simulated_user"
       /\ runs[r].transcript[i].message = Fallback

GenFailedEntry == LogEntry("simulated_user", "Response generation failed", 0)

\* C11: when the generation call of a reply fails, the step in which
\* generateSimulatedResponse learns of it appends the failure LogEntry and
\* no TranscriptEntry, and the Run goes on running.
C11_FailureLoggedOnly ==
  [][ (Len(gens') < Len(gens) /\ genReturn'.failed /\ currentRun # 0) =>
        /\ runs'[currentRun].transcript = runs[currentRun].transcript
        /\ runs'[currentRun].eventLog =
             Append(runs[currentRun].eventLog, GenFailedEntry)
        /\ isRunning' = isRunning ]_vars

\* C12: with a send function that is absent or throws, no attempt to send
\* leaves an exception uncaught, the greeting attempt on a running Run
\* leaves a LogEntry, and the Run goes on running.
C12_SendFailureConfined ==
  [][ sendFn # "ok" =>
        /\ ~uncaught'
        /\ \A r \in RunIds :
             (timers'["greeting"][r] < timers["greeting"][r] /\ isRunning) =>
               /\ isRunning'
               /\ Len(runs'[currentRun].eventLog) > Len(runs[currentRun].eventLog)
    ]_vars

\* startRun is waiting for the run id and the service runs nothing
AwaitingRunId ==
  /\ ~isRunning
  /\ \E i \in 1..Len(starts) : starts[i].pc = "create"

C14_PutFailureRecovered ==
  \A r \in RunIds :
    (putCount[r] >= 1 /\ ~store[r].saved) =>
      /\ runs[r].status = "completed"
      /\ ~(isRunning /\ currentRun = r)
      /\ callbacks[r] = 1
      /\ putCount[r] = 1
      /\ ~uncaught

\* the PUT of a Run has failed and the Run is completed, reported and unsaved
C14_Witness ==
  \E r \in RunIds :
    /\ putCount[r] = 1 /\ ~store[r].saved
    /\ runs[r].status = "completed"
    /\ callbacks[r] = 1
    /\ ~isRunning

\* C15: what GET returns for a run_id is, in content and order, the
\* conversation_history and the event_log of the PUT that stored the run,
\* and it stays so.
C15_RoundTrip ==
  [][ \A r \in RunIds :
        /\ (~store[r].saved /\ store'[r].saved) =>
             /\ getBenchmarkRun(store', r).conversation_history =
                  Payload(runs'[r]).conversation_history
             /\ getBenchmarkRun(store', r).event_log = Payload(runs'[r]).event_log
        /\ store[r].saved =>
             getBenchmarkRun(store', r) = getBenchmarkRun(store, r) ]_vars

\* a stored run with a reply in its conversation_history
C15_Witness ==
  \E r \in RunIds :
    /\ store[r].saved
    /\ Len(getBenchmarkRun(store, r).conversation_history) >= 2
    /\ Len(getBenchmarkRun(store, r).event_log) >= 3
    /\ getBenchmarkRun(store, r).conversation_history[2].speaker = "simulated_user"

Last(seq) == seq[Len(seq)]

\* C16: a generateResponse call of an active respondent appends the
\* non-empty utterance to the history as an interviewer turn, and when the
\* call returns a string the last history entry is the respondent's turn
\* with that string; the call of an inactive respondent returns null, makes
\* no generation call and leaves the history as it is.
C16_HistoryFollowsReplies ==
  [][ /\ Len(gens') > Len(gens) =>
           (Last(gens').msg # "" =>
              Last(su'.conversationHistory) =
                [role |-> "interviewer", message |-> Last(gens').msg])
      /\ Len(gens') < Len(gens) =>
           (genReturn'.result \notin {"null", ""} =>
              /\ su'.conversationHistory # <<>>
              /\ Last(su'.conversationHistory) =
                   [role |-> "candidate", message |-> genReturn'.result])
      /\ (genReturn' # genReturn /\ ~genReturn'.active) =>
           /\ genReturn'.result = "null"
           /\ gens' = gens
           /\ su'.conversationHistory = su.conversationHistory ]_vars

\* the configuration fetches of initialize() that are under way
PendingFetches(st) == Cardinality({i \in 1..Len(st) : st[i].pc = "init"})

\* C17: a fetch of initialize() always ends with the respondent initialized,
\* on the loaded or on the built-in prompt; once initialized it stays so, no
\* initialize call begins a fetch, and the prompt is only written by a fetch
\* that was begun before.
C17_InitializeIdempotent ==
  [][ /\ PendingFetches(starts') < PendingFetches(starts) =>
           su'.initialized /\ su'.systemPrompt \in {"loaded", "builtin"}
      /\ su.initialized =>
           /\ su'.initialized
           /\ PendingFetches(starts') <= PendingFetches(starts)
           /\ su'.systemPrompt # su.systemPrompt =>
                PendingFetches(starts') < PendingFetches(starts) ]_vars

\* a second startRun has gone through initialize() and start() on a
\* respondent that was initialized already, on the built-in prompt
C17_Witness ==
  /\ su.initialized /\ su.systemPrompt = "builtin"
  /\ su.isActive
  /\ starts = <<>>
  /\ isRunning /\ currentRun = 2
  /\ runs[1].status = "completed"

\* C18: the step of startRun that calls start() leaves the respondent
\* active with an empty history, and the step of endRun, which calls stop(),
\* leaves it inactive with an empty history.
C18_StartStopResetHistory ==
  [][ /\ (\E r \in RunIds : timers'["greeting"][r] > timers["greeting"][r]) =>
           su'.isActive /\ su'.conversationHistory = <<>>
      /\ (\E r \in RunIds : endCount'[r] > endCount[r]) =>
           ~su'.isActive /\ su'.conversationHistory = <<>> ]_vars

\* the events of the list that the predicates look at
Window(evts) == 1..Min(Len(evts), RecentWindow)

\* C19: isConversationEnded is true exactly when one of the 10 most recent
\* events has the termination phrase, in any case, inside its transcript,
\* its text or its output text; for each class of the file with its phrase.
C19_EndedIffPhraseInWindow ==
  ret.fn = "isConversationEnded" =>
    /\ ret.ended1 =
         (\E i \in Window(arg) :
            \/ Includes(ToLowerCase(arg[i].transcript), Phrase1)
            \/ Includes(ToLowerCase(arg[i].text), Phrase1)
            \/ Includes(ToLowerCase(arg[i].output), Phrase1))
    /\ ret.ended3 =
         (\E i \in Window(arg) :
            \/ Includes(ToLowerCase(arg[i].transcript), Phrase3)
            \/ Includes(ToLowerCase(arg[i].text), Phrase3)
            \/ Includes(ToLowerCase(arg[i].output), Phrase3))

\* C20: extractLatestInterviewerMessage returns the (trimmed) transcript of
\* the first of the 10 most recent events whose type is
\* 'response.output_audio_transcript.done', the empty string if there is none.
C20_FirstDoneEvent ==
  ret.fn = "extractLatestInterviewerMessage" =>
    LET done == {i \in Window(arg) : arg[i].type = TDone}
    IN ret.latest =
         IF done = {} THEN ""
         ELSE Trim(arg[CHOOSE i \in done : \A j \in done : i <= j].transcript)

\* C21: the step in which startRun rejects because createNewRun failed
\* leaves isRunning, currentRun, every Run, the respondent and the timers as
\* they were: nothing is raised, replaced, started or scheduled.
C21_CreateFailureScoped ==
  [][ rejected' > rejected =>
        /\ isRunning' = isRunning
        /\ currentRun' = currentRun
        /\ runs' = runs
        /\ su' = su
        /\ timers' = timers
        /\ Len(starts') = Len(starts) - 1 ]_vars

\* a startRun call was rejected and the service runs a Run that started
\* normally: respondent active, run-started entry logged, greeting pending
C21_Witness ==
  /\ rejected >= 1
  /\ isRunning /\ currentRun # 0
  /\ runs[currentRun].status = "running"
  /\ su.isActive
  /\ starts = <<>>
  /\ runs[currentRun].eventLog # <<>>
  /\ runs[currentRun].eventLog[1].action = "Benchmark run started"
  /\ timers["greeting"][currentRun] = 1

\* C22: a PUT for a run_id that has a stored record is answered with an
\* error and leaves the record as it is, whatever body it carries; a GET
\* for a run_id that POST handed out and no PUT stored is answered 404.
C22_OneRecordPerRunId ==
  [][ /\ (arg'.fn = "PUT" /\ store[arg'.run_id].saved) =>
           /\ ret'.status >= 400
           /\ store'[arg'.run_id] = store[arg'.run_id]
           /\ getBenchmarkRun(store', arg'.run_id) = getBenchmarkRun(store, arg'.run_id)
      /\ (arg'.fn = "GET" /\ arg'.run_id \in allocated /\ ~store[arg'.run_id].saved) =>
           ret'.status = 404 ]_vars

\* a PUT with a well-formed body other than the stored one was refused for
\* a run_id that is stored, while another run_id was handed out and never PUT
C22_Witness ==
  /\ arg # <<>> /\ arg.fn = "PUT"
  /\ ret.status = 500
  /\ store[arg.run_id].saved
  /\ StringifyTurns(arg.body.conversation_history) #
       store[arg.run_id].conversation_history_json
  /\ \E r \in allocated : ~store[r].saved

\* C23: startRun calls, overlapping ones included, leave a single Run in
\* progress: every Run that was created and has not ended is the Run the
\* service holds, so no created Run is replaced by another while it runs.
C23_OverlapYieldsOneRun ==
  \A r \in RunIds : runs[r].status = "running" => currentRun = r

\* C24: between operations, isRunning holds exactly when the service has a
\* currentRun with status running, and the respondent is active only while
\* isRunning holds.
C24_FlagsAgree ==
  /\ isRunning <=> (currentRun # 0 /\ runs[currentRun].status = "running")
  /\ su.isActive => isRunning

\* the list holds a termination phrase that was delivered after the
\* startRun call of Run r: events are prepended, so the event at place i of
\* a list of n events was the (n - i + 1)-th to arrive
PhraseSince(r) ==
  \E i \in 1..Len(events) :
    /\ ContainsPhrase(events[i].transcript)
    /\ Len(events) - i + 1 > calledAt[r]

\* C25: a Run is completed by the natural-termination timer only when a
\* termination phrase was delivered after its startRun call; phrases that
\* were in the list before the call never end it.
C25_OldPhraseDoesNotEnd ==
  [][ \A r \in RunIds :
        ( /\ endCount'[r] > endCount[r]
          /\ \E q \in RunIds : timers'["end"][q] < timers["end"][q] )
        => PhraseSince(r) ]_vars

\* the transcript goes interviewer, simulated_user, interviewer, ...
Alternates(t) ==
  \A i \in 1..Len(t) :
    t[i].role = IF i % 2 = 1 THEN "interviewer" ELSE "simulated_user"

\* C26: at most one reply generation is under way; the transcript of every
\* Run alternates, starting with the interviewer; and a reply is appended
\* right after the interviewer entry it answers, in the Run that asked.
C26_StrictAlternation ==
  [][ /\ Len(gens') <= 1
      /\ \A r \in RunIds : Alternates(runs'[r].transcript)
      /\ ( /\ Len(gens') < Len(gens)
           /\ currentRun # 0
           /\ Len(runs'[currentRun].transcript) > Len(runs[currentRun].transcript) )
         => /\ runs[currentRun].transcript # <<>>
            /\ Last(runs[currentRun].transcript).role = "interviewer"
            /\ \E i \in 1..Len(gens) :
                 /\ gens[i].run = currentRun
                 /\ gens[i].msg = Last(runs[currentRun].transcript).message ]_vars

\* the places in the list of the events the channel delivered after Run r
\* was created
DeliveredSince(r) ==
  {i \in 1..Len(events) :
     /\ Len(events) - i + 1 > adoptedAt[r]
     /\ events[i].type \in ServerTypes}

\* C27: when a Run is stored, its event_log has a realtime_api LogEntry for
\* every event the channel delivered since the Run was created.
C27_EveryDeliveredEventLogged ==
  [][ \A r \in RunIds :
        (~store[r].saved /\ store'[r].saved) =>
          \A i \in DeliveredSince(r) :
            \E k \in 1..Len(getBenchmarkRun(store', r).event_log) :
              /\ getBenchmarkRun(store', r).event_log[k].source = "realtime_api"
              /\ getBenchmarkRun(store', r).event_log[k].data = events[i].event_id
    ]_vars

\* C28: no TranscriptEntry of any Run has an empty message.
C28_NonEmptyMessages ==
  \A r \in RunIds : \A i \in 1..Len(runs[r].transcript) :
    runs[r].transcript[i].message # ""

\* C29: the event_log stored for a Run begins with the system entry
\* 'Benchmark run started' and ends with the system entry 'Benchmark run
\* ended'.
C29_LogBracketed ==
  \A r \in RunIds : store[r].saved =>
    LET log == getBenchmarkRun(store, r).event_log
    IN /\ log # <<>>
       /\ log[1].source = "system"
       /\ log[1].action = "Benchmark run started"
       /\ Last(log).source = "system"
       /\ Last(log).action = "Benchmark run ended"

\* the system prompts a prompt name stands for: the prompt of its file and,
\* for 'candidate', the built-in candidate configuration that initialize()
\* falls back to
PromptsNamed(name) ==
  {getPromptConfig(name)} \cup (IF name = "candidate" THEN {"builtin"} ELSE {})

\* C30: the prompt name stored for a Run is the userPrompt its startRun was
\* given, and every reply the respondent generates in a Run is generated
\* under a system prompt that name stands for.
C30_PromptNameIsPromptUsed ==
  [][ /\ \A r \in RunIds :
           (~store[r].saved /\ store'[r].saved) =>
             store'[r].simulated_user_prompt_name = runs[r].selectedUserPrompt
      /\ ( /\ Len(gens') < Len(gens)
           /\ genReturn'.result = Reply
           /\ currentRun # 0 )
         => su.systemPrompt \in PromptsNamed(runs[currentRun].selectedUserPrompt)
    ]_vars

====
